---- MODULE Spec2Model ----
(***************************************************************************)
(* cargo-template: a project directory is materialized from a template     *)
(* that is resolved through an index, copied, and personalized.            *)
(*                                                                         *)
(* Text is modelled as a sequence of one-character strings, a path as a    *)
(* sequence of file names, the filesystem as a function from the paths     *)
(* that exist to their nodes, and Option<T> as a sequence of length <= 1.  *)
(***************************************************************************)
EXTENDS Integers, Sequences, FiniteSets, TLC

VARIABLES fs, env, pc, args, err, config, from, author, clones, stage, io, prev

vars == <<fs, env, pc, args, err, config, from, author, clones, stage, io, prev>>

(***************************************************************************)
(* Bounds                                                                  *)
(***************************************************************************)
MaxDepth == 2
MaxFuel == 4

(***************************************************************************)
(* Text and Option                                                         *)
(***************************************************************************)
None == <<>>
Some(x) == <<x>>

DotGit == <<".", "g", "i", "t">>
CargoToml == <<"C", "a", "r", "g", "o", ".", "t", "o", "m", "l">>
N_a == <<"a">>

(***************************************************************************)
(* Errors (src/errors.rs): a kind and the path or name it carries          *)
(***************************************************************************)
Ok == [kind |-> "Ok", arg |-> <<>>]
Error(k, a) == [kind |-> k, arg |-> a]
IoError == Error("IoError", <<>>)

(***************************************************************************)
(* The filesystem                                                          *)
(***************************************************************************)
DirNode == [kind |-> "dir", data |-> <<>>]
FileNode(d) == [kind |-> "file", data |-> d]
OtherNode == [kind |-> "other", data |-> <<>>]
EmptyFs == [p \in {} |-> DirNode]

Exists(f, p) == p \in DOMAIN f
IsDir(f, p) == Exists(f, p) /\ f[p].kind = "dir"
IsFile(f, p) == Exists(f, p) /\ f[p].kind = "file"

Prefixes(p) == {SubSeq(p, 1, n) : n \in 1..Len(p)}
IsBelow(q, p) == Len(q) > Len(p) /\ SubSeq(q, 1, Len(p)) = p
Children(f, p) == {q \in DOMAIN f : Len(q) = Len(p) + 1 /\ IsBelow(q, p)}

\* One I/O operation under the fault budget: `fuel` operations succeed before
\* the first one fails; NoFault never fails.
NoFault == 0 - 1
Faulty(fuel) == fuel = 0
Spend(fuel) == IF fuel > 0 THEN fuel - 1 ELSE fuel

\* DirBuilder::new().recursive(true).create(p)
ensure_exists(f, p, fuel) ==
    IF Faulty(fuel) \/ \E q \in Prefixes(p) : Exists(f, q) /\ ~IsDir(f, q)
    THEN [fs |-> f, fuel |-> fuel, err |-> IoError]
    ELSE [fs |-> [q \in DOMAIN f \cup Prefixes(p) |->
                     IF q \in DOMAIN f THEN f[q] ELSE DirNode],
          fuel |-> Spend(fuel), err |-> Ok]

\* fs::copy(src, dst): dst is created or its whole content replaced
fs_copy(f, src, dst, fuel) ==
    IF \/ Faulty(fuel)
       \/ ~IsFile(f, src)
       \/ (Exists(f, dst) /\ ~IsFile(f, dst))
       \/ (Len(dst) > 1 /\ ~IsDir(f, SubSeq(dst, 1, Len(dst) - 1)))
    THEN [fs |-> f, fuel |-> fuel, err |-> IoError]
    ELSE [fs |-> [q \in DOMAIN f \cup {dst} |->
                     IF q = dst THEN FileNode(f[src].data) ELSE f[q]],
          fuel |-> Spend(fuel), err |-> Ok]

\* fs::read_dir(p): the names of p's entries, in the order `order` lists them
read_dir(f, p, order) ==
    SelectSeq(order, LAMBDA n : Append(p, n) \in Children(f, p))

(***************************************************************************)
(* Directory Materializer: copy_dir                                        *)
(***************************************************************************)
RECURSIVE copy_dir(_, _, _, _, _)
RECURSIVE copy_entries(_, _, _, _, _, _)

\* A loop that skips nothing
skipped_nothing(file_name) == FALSE

\* The entries skipped by the loop of copy_dir
skipped(file_name) == file_name = DotGit

\* A check of existence alone
source_missing_unless_exists(f, src) == ~Exists(f, src)

\* The check copy_dir makes of its source before it writes anything
source_missing(f, src) == ~Exists(f, src) \/ ~IsDir(f, src)

copy_dir(f, src, to, fuel, order) ==
    IF source_missing(f, src)
    THEN [fs |-> f, fuel |-> fuel, err |-> Error("SourceDoesNotExist", src)]
    ELSE LET e == ensure_exists(f, to, fuel) IN
         IF e.err # Ok THEN e
         ELSE IF Faulty(e.fuel)
              THEN [fs |-> e.fs, fuel |-> e.fuel, err |-> IoError]
              ELSE copy_entries(e.fs, src, to, Spend(e.fuel), order,
                                read_dir(e.fs, src, order))

copy_entries(f, src, to, fuel, order, entries) ==
    IF entries = <<>>
    THEN [fs |-> f, fuel |-> fuel, err |-> Ok]
    ELSE LET file_name == Head(entries)
             path == Append(src, file_name)
             new_to == Append(to, file_name)
         IN  IF skipped(file_name)
             THEN copy_entries(f, src, to, fuel, order, Tail(entries))
             ELSE IF IsDir(f, path)
             THEN LET e == ensure_exists(f, new_to, fuel) IN
                  IF e.err # Ok THEN e
                  ELSE LET r == copy_dir(e.fs, path, new_to, e.fuel, order) IN
                       IF r.err # Ok THEN r
                       ELSE copy_entries(r.fs, src, to, r.fuel, order, Tail(entries))
             ELSE IF IsFile(f, path)
             THEN LET c == fs_copy(f, path, new_to, fuel) IN
                  IF c.err # Ok THEN c
                  ELSE copy_entries(c.fs, src, to, c.fuel, order, Tail(entries))
             ELSE copy_entries(f, src, to, fuel, order, Tail(entries))

(***************************************************************************)
(* Specification of copy_dir alone: the source tree is drawn from every    *)
(* tree of depth <= MaxDepth over the names .git and a.                    *)
(***************************************************************************)
FileData == {<<"x">>, <<"y">>}
TreeNames == <<DotGit, N_a>>
TreeOrders == {TreeNames, <<N_a, DotGit>>}
SrcRoot == << <<"A">> >>
DstRoot == << <<"o", "u", "t">>, <<"B">> >>

RECURSIVE Subtrees(_, _)
EntryChoices(p, n, d) ==
    {EmptyFs}
    \cup {Append(p, n) :> FileNode(x) : x \in FileData}
    \cup {(Append(p, n) :> DirNode) @@ s : s \in Subtrees(Append(p, n), d - 1)}
Subtrees(p, d) ==
    IF d = 0 THEN {EmptyFs}
    ELSE {s @@ t : s \in EntryChoices(p, DotGit, d), t \in EntryChoices(p, N_a, d)}

SourceTrees == {(SrcRoot :> DirNode) @@ s : s \in Subtrees(SrcRoot, MaxDepth)}

NoConfig == [index |-> <<>>, index_path |-> <<>>, templates_path |-> <<>>,
             resolved_index_path |-> None]
NoEnv == [vars |-> [v \in {} |-> None], git |-> None, registry_index |-> None]

InitCopy ==
    /\ fs \in SourceTrees \cup {EmptyFs, SrcRoot :> FileNode(<<"x">>)}
    /\ pc = "copy_dir"
    /\ args = [src |-> SrcRoot, to |-> DstRoot, fs0 |-> fs]
    /\ err = Ok
    /\ env = NoEnv
    /\ config = NoConfig
    /\ from = None
    /\ author = None
    /\ clones = {}
    /\ stage = "none"
    /\ io = NoFault
    /\ prev = None

CallCopyDir ==
    /\ pc = "copy_dir"
    /\ \E order \in TreeOrders :
          LET r == copy_dir(fs, args.src, args.to, NoFault, order) IN
          /\ fs' = r.fs
          /\ err' = r.err
    /\ pc' = "returned"
    /\ UNCHANGED <<env, args, config, from, author, clones, stage, io, prev>>

NextCopy == CallCopyDir

SpecCopy == InitCopy /\ [][NextCopy]_vars


(***************************************************************************)
(* Identity Resolver: get_name_and_email                                   *)
(* env.vars maps each environment variable to its value when set; env.git  *)
(* is the default git configuration when it can be opened.                 *)
(***************************************************************************)
name_variables == <<"CARGO_NAME", "GIT_AUTHOR_NAME", "GIT_COMMITTER_NAME",
                    "USER", "USERNAME", "NAME">>
email_variables == <<"CARGO_EMAIL", "GIT_AUTHOR_EMAIL", "GIT_COMMITTER_EMAIL",
                     "EMAIL">>
windows == FALSE
username_var == IF windows THEN <<"U", "S", "E", "R", "N", "A", "M", "E">>
                ELSE <<"U", "S", "E", "R">>

\* Option::or_else
or_else(opt, alt) == IF opt # None THEN opt ELSE alt

\* env::var(var).ok()
env_var(e, var) == e.vars[var]

\* A lookup that passes over variables that are set to the empty string
get_environment_variable_nonempty(e, variables) ==
    LET found == {i \in 1..Len(variables) :
                     env_var(e, variables[i]) \notin {None, Some(<<>>)}}
    IN  IF found = {} THEN None
        ELSE env_var(e, variables[CHOOSE i \in found : \A j \in found : i <= j])

\* variables.iter().filter_map(|var| env::var(var).ok()).next()
get_environment_variable(e, variables) ==
    LET found == {i \in 1..Len(variables) : env_var(e, variables[i]) # None}
    IN  IF found = {} THEN None
        ELSE env_var(e, variables[CHOOSE i \in found : \A j \in found : i <= j])

\* git_config.and_then(|g| g.get_string(key).ok())
git_get_string(e, key) == IF e.git = None THEN None ELSE e.git[1][key]

\* str::trim
IsSpace(c) == c \in {" ", "\t", "\n"}
RECURSIVE trim_start(_)
trim_start(s) == IF s # <<>> /\ IsSpace(Head(s)) THEN trim_start(Tail(s)) ELSE s
RECURSIVE trim_end(_)
trim_end(s) == IF s # <<>> /\ IsSpace(s[Len(s)])
               THEN trim_end(SubSeq(s, 1, Len(s) - 1)) ELSE s
trim(s) == trim_end(trim_start(s))

get_name_and_email(e) ==
    LET name == or_else(or_else(get_environment_variable(e, SubSeq(name_variables, 1, 3)),
                                git_get_string(e, "user_name")),
                        get_environment_variable(e, SubSeq(name_variables, 4, 6)))
        email == or_else(or_else(get_environment_variable(e, SubSeq(email_variables, 1, 3)),
                                 git_get_string(e, "user_email")),
                         get_environment_variable(e, SubSeq(email_variables, 4, 4)))
    IN  IF name = None
        THEN [err |-> Error("UserError", <<username_var>>), value |-> None]
        ELSE [err |-> Ok,
              value |-> Some([name |-> trim(name[1]),
                              email |-> IF email = None THEN None
                                        ELSE Some(trim(email[1]))])]

(***************************************************************************)
(* Specification of get_name_and_email alone: every name source is unset,  *)
(* set to the empty string, or set to a padded value of its own.           *)
(***************************************************************************)
NameValue(v) ==
    CASE v = "CARGO_NAME"         -> <<" ", "c">>
      [] v = "GIT_AUTHOR_NAME"    -> <<"a", " ">>
      [] v = "GIT_COMMITTER_NAME" -> <<"m">>
      [] v = "USER"               -> <<"u">>
      [] v = "USERNAME"           -> <<" ", "w", " ">>
      [] v = "NAME"               -> <<"n">>
      [] OTHER                    -> <<"g", " ">>
EmailValue(v) == <<"e", "@">> \o NameValue(v)

NameVarSet == {name_variables[i] : i \in 1..Len(name_variables)}
EmailVarSet == {email_variables[i] : i \in 1..Len(email_variables)}
OtherVarSet == {"CARGO_HOME"}

IdentVars ==
    {n @@ m @@ [v \in OtherVarSet |-> None] :
        n \in {f \in [NameVarSet -> {0, 1, 2}] : TRUE},
        m \in {f \in [EmailVarSet -> {0, 2}] : TRUE}}

Setting(k, value) == CASE k = 0 -> None [] k = 1 -> Some(<<>>) [] OTHER -> Some(value)

EnvOfSettings(s, g) ==
    [vars |-> [v \in DOMAIN s |->
                  IF v \in NameVarSet THEN Setting(s[v], NameValue(v))
                  ELSE IF v \in EmailVarSet THEN Setting(s[v], EmailValue(v))
                  ELSE None],
     git |-> g, registry_index |-> None]

GitConfigs ==
    {None} \cup {Some([user_name |-> Setting(n, NameValue("git")),
                       user_email |-> Setting(m, EmailValue("git"))]) :
                    n \in {0, 1, 2}, m \in {0, 2}}

InitIdent ==
    /\ env \in {EnvOfSettings(s, g) : s \in IdentVars, g \in GitConfigs}
    /\ fs = EmptyFs
    /\ pc = "get_name_and_email"
    /\ args = <<>>
    /\ err = Ok
    /\ config = NoConfig
    /\ from = None
    /\ author = None
    /\ clones = {}
    /\ stage = "none"
    /\ io = NoFault
    /\ prev = None

CallGetNameAndEmail ==
    /\ pc = "get_name_and_email"
    /\ LET r == get_name_and_email(env) IN
          /\ err' = r.err
          /\ author' = r.value
    /\ pc' = "returned"
    /\ UNCHANGED <<fs, env, args, config, from, clones, stage, io, prev>>

NextIdent == CallGetNameAndEmail

SpecIdent == InitIdent /\ [][NextIdent]_vars

(***************************************************************************)
(* Manifest Editor: format_author, write_toml, edit_cargo_toml,            *)
(* find_cargo_toml.  A manifest document has an optional [dependencies]    *)
(* table with one key and a `package` entry that is absent, a string, or a *)
(* table with optional name, authors and version.                          *)
(***************************************************************************)
T_package == <<"p", "a", "c", "k", "a", "g", "e">>
T_dependencies == <<"d", "e", "p", "e", "n", "d", "e", "n", "c", "i", "e", "s">>
T_name == <<"n", "a", "m", "e">>
T_authors == <<"a", "u", "t", "h", "o", "r", "s">>
T_version == <<"v", "e", "r", "s", "i", "o", "n">>
T_dep == <<"d">>

\* format!("{} <{}>", author_name, email) / format!("{}", author_name)
format_author(author_name, author_email) ==
    IF author_email # None
    THEN author_name \o <<" ", "<">> \o author_email[1] \o <<">">>
    ELSE author_name

\* Display of toml::Value: keys in BTreeMap order, plain values before tables
Quote(t) == <<"\"">> \o t \o <<"\"">>
KeyVal(key, rhs) == key \o <<" ", "=", " ">> \o rhs \o <<"\n">>
TableHeader(key) == <<"\n", "[">> \o key \o <<"]", "\n">>
RECURSIVE QuoteAll(_)
QuoteAll(a) ==
    IF a = <<>> THEN <<>>
    ELSE IF Len(a) = 1 THEN Quote(a[1])
    ELSE Quote(a[1]) \o <<",", " ">> \o QuoteAll(Tail(a))
ArrayText(a) == <<"[">> \o QuoteAll(a) \o <<"]">>
OptLine(key, opt) == IF opt = None THEN <<>> ELSE KeyVal(key, Quote(opt[1]))

Serialize(doc) ==
    (IF doc.package.kind = "string"
     THEN KeyVal(T_package, Quote(doc.package.name[1])) ELSE <<>>)
    \o (IF doc.deps = None THEN <<>>
        ELSE TableHeader(T_dependencies) \o KeyVal(T_dep, Quote(doc.deps[1])))
    \o (IF doc.package.kind = "table"
        THEN TableHeader(T_package)
             \o (IF doc.package.authors = None THEN <<>>
                 ELSE KeyVal(T_authors, ArrayText(doc.package.authors[1])))
             \o OptLine(T_name, doc.package.name)
             \o OptLine(T_version, doc.package.version)
        ELSE <<>>)

\* The documents of the model's manifests
OldNames == {<<"o">>, <<"o", "l", "d", "e", "r", "n", "a", "m", "e">>}
OldAuthors == {<<>>, << <<"x">> >>, << <<"x">>, <<"y", " ", "<", "y", "@", "z", ">">> >>}
NoPackage == [kind |-> "absent", name |-> None, authors |-> None, version |-> None]
Packages ==
    {NoPackage, [NoPackage EXCEPT !.kind = "string", !.name = Some(<<"s">>)]}
    \cup [kind : {"table"},
          name : {None} \cup {Some(n) : n \in OldNames},
          authors : {None} \cup {Some(a) : a \in OldAuthors},
          version : {None, Some(<<"1">>)}]
Docs == [deps : {None, Some(<<"2">>)}, package : Packages]

\* toml::Parser::new(&contents).parse(): the document a text denotes, if any
Parse(contents) ==
    LET ds == {d \in Docs : Serialize(d) = contents}
    IN  IF ds = {} THEN None ELSE Some(CHOOSE d \in ds : TRUE)

\* write!(file, ...) on a file opened with read(true).write(true): the bytes
\* go to offset 0 and the file keeps its length beyond them
written(old, contents) ==
    contents \o SubSeq(old, Len(contents) + 1, Len(old))

write_toml(f, file, val, fuel) ==
    IF Faulty(fuel) \/ ~IsFile(f, file)
    THEN [fs |-> f, fuel |-> fuel, err |-> IoError]
    ELSE [fs |-> [f EXCEPT ![file] = FileNode(written(f[file].data, Serialize(val)))],
          fuel |-> Spend(fuel), err |-> Ok]

edit_cargo_toml(f, file, project_name, author_name, author_email, fuel) ==
    IF Faulty(fuel) \/ ~IsFile(f, file)
    THEN [fs |-> f, fuel |-> fuel, err |-> IoError]
    ELSE LET parsed == Parse(f[file].data) IN
         IF parsed = None \/ parsed[1].package.kind # "table"
         THEN [fs |-> f, fuel |-> Spend(fuel), err |-> Error("TomlParseError", file)]
         ELSE LET value == [parsed[1] EXCEPT
                               !.package.name = Some(project_name),
                               !.package.authors =
                                   Some(<<format_author(author_name, author_email)>>)]
              IN  write_toml(f, file, value, Spend(fuel))

RECURSIVE find_entries(_, _, _, _, _, _, _)
find_entries(f, project_dir, project_name, author_name, author_email, fuel, entries) ==
    IF entries = <<>>
    THEN [fs |-> f, fuel |-> fuel, err |-> Ok]
    ELSE LET path == Append(project_dir, Head(entries)) IN
         IF IsFile(f, path) /\ Head(entries) = CargoToml
         THEN LET r == edit_cargo_toml(f, path, project_name, author_name,
                                       author_email, fuel) IN
              IF r.err # Ok THEN r
              ELSE find_entries(r.fs, project_dir, project_name, author_name,
                                author_email, r.fuel, Tail(entries))
         ELSE find_entries(f, project_dir, project_name, author_name,
                           author_email, fuel, Tail(entries))

find_cargo_toml(f, project_dir, project_name, author_name, author_email, fuel, order) ==
    IF Faulty(fuel) \/ ~IsDir(f, project_dir)
    THEN [fs |-> f, fuel |-> fuel, err |-> IoError]
    ELSE find_entries(f, project_dir, project_name, author_name, author_email,
                      Spend(fuel), read_dir(f, project_dir, order))

(***************************************************************************)
(* Specification of edit_cargo_toml alone: the manifest holds the text of  *)
(* any document of Docs, or text that is no manifest.                      *)
(***************************************************************************)
ManifestDir == << <<"p", "r", "j">> >>
ManifestPath == Append(ManifestDir, CargoToml)
ProjectNames == {<<"p">>, <<"l", "o", "n", "g", "e", "r", "p", "r", "o", "j", "e", "c", "t">>}
AuthorNames == {<<>>, <<"A", "d", "a">>}
AuthorEmails == {None, Some(<<"a", "@", "b">>)}
Garbage == <<"[", "p", "a", "c", "k">>
ManifestTexts == {Serialize(d) : d \in Docs} \cup {Garbage}

InitToml ==
    /\ \E text \in ManifestTexts :
          fs = (ManifestDir :> DirNode) @@ (ManifestPath :> FileNode(text))
    /\ args \in [file : {ManifestPath}, project_name : ProjectNames,
                 author_name : AuthorNames, author_email : AuthorEmails,
                 old : ManifestTexts]
    /\ args.old = fs[ManifestPath].data
    /\ pc = "edit_cargo_toml"
    /\ err = Ok
    /\ env = NoEnv
    /\ config = NoConfig
    /\ from = None
    /\ author = None
    /\ clones = {}
    /\ stage = "none"
    /\ io = NoFault
    /\ prev = None

CallEditCargoToml ==
    /\ pc = "edit_cargo_toml"
    /\ LET r == edit_cargo_toml(fs, args.file, args.project_name, args.author_name,
                                args.author_email, NoFault) IN
          /\ fs' = r.fs
          /\ err' = r.err
    /\ pc' = "returned"
    /\ UNCHANGED <<env, args, config, from, author, clones, stage, io, prev>>

NextToml == CallEditCargoToml

SpecToml == InitToml /\ [][NextToml]_vars

(***************************************************************************)
(* Configuration: Config::new                                              *)
(***************************************************************************)
DEFAULT_INDEX ==
    <<"h", "t", "t", "p", "s", ":", "/", "/", "g", "i", "t", "h", "u", "b", ".",
      "c", "o", "m", "/", "r", "u", "s", "t", "t", "e", "m", "p", "l", "a", "t",
      "e", "s", "/", "t", "e", "m", "p", "l", "a", "t", "e", "s">>
N_cargo_template == <<"c", "a", "r", "g", "o", "-", "t", "e", "m", "p", "l", "a", "t", "e">>
N_index == <<"i", "n", "d", "e", "x">>
N_templates == <<"t", "e", "m", "p", "l", "a", "t", "e", "s">>
N_index_json == <<"i", "n", "d", "e", "x", ".", "j", "s", "o", "n">>

\* Path::new(text) for a text without separators, and a path relative to the
\* current directory
Cwd == << <<"c", "w", "d">> >>
AbsPath(text) == <<text>>
RelPath(text) == Append(Cwd, text)

Config_new(f, e, fuel) ==
    LET index == IF e.registry_index = None THEN DEFAULT_INDEX ELSE e.registry_index[1]
        home == env_var(e, "CARGO_HOME")
    IN  IF home = None
        THEN [fs |-> f, fuel |-> fuel, err |-> Error("VarError", <<>>), config |-> NoConfig]
        ELSE LET config_dir == Append(AbsPath(home[1]), N_cargo_template)
                 index_path == Append(config_dir, N_index)
                 templates_path == Append(config_dir, N_templates)
                 a == ensure_exists(f, config_dir, fuel)
                 b == ensure_exists(a.fs, index_path, a.fuel)
                 c == ensure_exists(b.fs, templates_path, b.fuel)
                 bad == IF a.err # Ok THEN a ELSE IF b.err # Ok THEN b ELSE c
             IN  [fs |-> bad.fs, fuel |-> bad.fuel, err |-> bad.err,
                  config |-> IF bad.err # Ok THEN NoConfig
                             ELSE [index |-> index, index_path |-> index_path,
                                   templates_path |-> templates_path,
                                   resolved_index_path |-> None]]

(***************************************************************************)
(* Repository::clone(url, into).  `remote` is what the fetch delivers:     *)
(* None when it fails, else the entries of the checkout.                   *)
(***************************************************************************)
TreeAt(root, rel) ==
    [p \in {root} \cup {root \o q : q \in DOMAIN rel} |->
        IF p = root THEN DirNode ELSE rel[SubSeq(p, Len(root) + 1, Len(p))]]

Repository_clone(f, into, remote) ==
    IF \/ remote = None
       \/ (Exists(f, into) /\ (~IsDir(f, into) \/ Children(f, into) # {}))
       \/ \E q \in Prefixes(into) : Exists(f, q) /\ ~IsDir(f, q)
    THEN [fs |-> f, err |-> Error("GitError", <<>>)]
    ELSE [fs |-> TreeAt(into, remote[1])
                 @@ [q \in DOMAIN f \cup Prefixes(into) |->
                        IF q \in DOMAIN f THEN f[q] ELSE DirNode],
          err |-> Ok]

(***************************************************************************)
(* Index Store: IndexLoader, get_index                                     *)
(***************************************************************************)
\* str::replace for one character
str_replace(s, a, b) == [i \in 1..Len(s) |-> IF s[i] = a THEN b ELSE s[i]]

url_to_repo_dir(url) ==
    str_replace(str_replace(str_replace(url, ":", "_"), "/", "_"), " ", "-")

update_index(source) == [err |-> Ok, path |-> Some(source)]

clone_index(f, index, source, remote) ==
    LET p == Append(index, url_to_repo_dir(source))
        r == Repository_clone(f, p, remote)
    IN  [fs |-> r.fs, err |-> r.err,
         path |-> IF r.err = Ok THEN Some(p) ELSE None,
         clones |-> {[url |-> source, into |-> p]}]

update_or_clone(f, index, source, frozen, remote) ==
    LET repo == Append(index, url_to_repo_dir(source)) IN
    IF Exists(f, repo) /\ IsDir(f, repo)
    THEN IF ~frozen
         THEN [fs |-> f, clones |-> {}] @@ update_index(repo)
         ELSE [fs |-> f, err |-> Ok, path |-> Some(repo), clones |-> {}]
    ELSE clone_index(f, index, source, remote)

\* The membership file: {"index":[{"name":"..","loc":".."},..]}
T_loc == <<"l", "o", "c">>
MemberText(m) ==
    <<"{">> \o Quote(T_name) \o <<":">> \o Quote(m.name) \o <<",">>
    \o Quote(T_loc) \o <<":">> \o Quote(m.loc) \o <<"}">>
RECURSIVE MembersText(_)
MembersText(ms) ==
    IF ms = <<>> THEN <<>>
    ELSE IF Len(ms) = 1 THEN MemberText(ms[1])
    ELSE MemberText(ms[1]) \o <<",">> \o MembersText(Tail(ms))
EncodeIndex(ms) ==
    <<"{">> \o Quote(N_index) \o <<":", "[">> \o MembersText(ms) \o <<"]", "}">>

TplName == <<"t", "p", "l">>
LocalDir == <<"l", "o", "c", "a", "l">>
RemoteUrl == <<"g", "i", "t", ":", "/", "/", "h", "/", "t">>
Members == [name : {TplName}, loc : {RemoteUrl, LocalDir}]
IndexDocs == {<<>>} \cup {<<m>> : m \in Members} \cup {<<m, n>> : m \in Members, n \in Members}

\* serde_json::from_reader::<File, IndexTopLevel>
ParseIndex(text) ==
    LET ds == {d \in IndexDocs : EncodeIndex(d) = text}
    IN  IF ds = {} THEN None ELSE Some(CHOOSE d \in ds : TRUE)

\* index_members.into_iter().collect::<HashMap<_, _>>(): the last of the
\* members of a name is the one kept
IndexMap(ms) ==
    [n \in {ms[i].name : i \in 1..Len(ms)} |->
        ms[CHOOSE i \in 1..Len(ms) :
              ms[i].name = n /\ \A j \in 1..Len(ms) : ms[j].name = n => j <= i].loc]

get_index(f, cfg, frozen, remote, fuel) ==
    LET u == update_or_clone(f, cfg.index_path, cfg.index, frozen, remote)
        cfg2 == IF u.err = Ok THEN [cfg EXCEPT !.resolved_index_path = u.path] ELSE cfg
        out(e, fl, ix) == [fs |-> u.fs, fuel |-> fl, err |-> e, config |-> cfg2,
                           clones |-> u.clones, index |-> ix]
    IN  IF cfg2.resolved_index_path = None
        THEN out(Error("GenericError", <<>>), fuel, <<>>)
        ELSE LET index_file == Append(cfg2.resolved_index_path[1], N_index_json) IN
             IF Faulty(fuel) \/ ~IsFile(u.fs, index_file)
             THEN out(IoError, fuel, <<>>)
             ELSE LET parsed == ParseIndex(u.fs[index_file].data) IN
                  IF parsed = None
                  THEN out(Error("SerdeError", <<>>), Spend(fuel), <<>>)
                  ELSE out(Ok, Spend(fuel), IndexMap(parsed[1]))

(***************************************************************************)
(* Template Store: get_template                                            *)
(***************************************************************************)
\* A Template Store that fetches whatever the mode
get_template_ignoring_frozen(f, name, url, templates_dir, frozen, remote) ==
    LET location == Append(templates_dir, name) IN
    IF ~Exists(f, location)
    THEN [fs |-> Repository_clone(f, location, remote).fs, err |-> Ok,
          location |-> Some(location),
          clones |-> {[url |-> url, into |-> location]}]
    ELSE [fs |-> f, err |-> Ok, location |-> Some(location), clones |-> {}]

\* A Template Store for which a failed fetch is fatal
get_template_failing_fast(f, name, url, templates_dir, frozen, remote) ==
    LET location == Append(templates_dir, name)
        r == Repository_clone(f, location, remote)
    IN  IF ~Exists(f, location)
        THEN IF frozen
             THEN [fs |-> f, err |-> Error("TemplateNotFound", <<name>>),
                   location |-> None, clones |-> {}]
             ELSE [fs |-> r.fs, err |-> r.err,
                   location |-> IF r.err = Ok THEN Some(location) ELSE None,
                   clones |-> {[url |-> url, into |-> location]}]
        ELSE [fs |-> f, err |-> Ok, location |-> Some(location), clones |-> {}]

get_template(f, name, url, templates_dir, frozen, remote) ==
    LET location == Append(templates_dir, name) IN
    IF ~Exists(f, location)
    THEN IF frozen
         THEN [fs |-> f, err |-> Error("TemplateNotFound", <<name>>),
               location |-> None, clones |-> {}]
         ELSE [fs |-> Repository_clone(f, location, remote).fs, err |-> Ok,
               location |-> Some(location),
               clones |-> {[url |-> url, into |-> location]}]
    ELSE [fs |-> f, err |-> Ok, location |-> Some(location), clones |-> {}]

(***************************************************************************)
(* Pipeline Orchestrator: main                                             *)
(***************************************************************************)
project_dir(a) == RelPath(a.project_name)

\* The template argument is looked at only as a name of the index
template_is_dir_never(f, template) == FALSE

\* fs::metadata(template) is Ok and is_dir()
template_is_dir(f, template) == IsDir(f, RelPath(template))

\* The value of a `let`: the one element of a singleton
TheOne(S) == CHOOSE x \in S : TRUE

Resolved(f, e, cfg, src, cl) ==
    [fs |-> f, err |-> e, config |-> cfg, from |-> src, clones |-> cl]

\* main from `index.get(template)` to the end of the `let from = ...`, g
\* being what get_index returned
resolve_in_index(g, a, net) ==
    IF g.err # Ok THEN Resolved(g.fs, g.err, g.config, None, g.clones)
    ELSE IF a.template \notin DOMAIN g.index
    THEN Resolved(g.fs, Error("TemplateDoesNotExist", <<a.template>>), g.config,
                  None, g.clones)
    ELSE TheOne({Resolved(t.fs, t.err, g.config, t.location, g.clones \cup t.clones) :
                    t \in {get_template(g.fs, a.template, g.index[a.template],
                                        g.config.templates_path, a.frozen,
                                        net.template)}})

\* main from `fs::metadata(template)` on, c being what Config::new returned
resolve_with_config(c, a, net) ==
    IF c.err # Ok THEN Resolved(c.fs, c.err, c.config, None, {})
    ELSE IF template_is_dir(c.fs, a.template)
    THEN Resolved(c.fs, Ok, c.config, Some(RelPath(a.template)), {})
    ELSE TheOne({resolve_in_index(g, a, net) :
                    g \in {get_index(c.fs, c.config, a.frozen, net.index, c.fuel)}})

\* main from Config::new to the end of the `let from = ...`
resolve_template(f, e, a, fuel, net) ==
    TheOne({resolve_with_config(c, a, net) : c \in {Config_new(f, e, fuel)}})

(***************************************************************************)
(* The world of a run of the pipeline: the current directory, CARGO_HOME,  *)
(* the caches, the template trees and what the network delivers.           *)
(***************************************************************************)
N_src == <<"s", "r", "c">>
N_main == <<"m", "a", "i", "n", ".", "r", "s">>
N_HEAD == <<"H", "E", "A", "D">>
N_link == <<"l", "i", "n", "k">>
HomeText == <<"h", "o", "m", "e">>
ProjName == <<"n", "e", "w">>
CustomIndex == <<"m", "y", " ", "i", "d", "x", ":", "/">>

TemplateDoc ==
    [deps |-> Some(<<"2">>),
     package |-> [kind |-> "table",
                  name |-> Some(<<"o", "l", "d", "e", "r", "n", "a", "m", "e">>),
                  authors |-> Some(<< <<"x">>, <<"y", " ", "<", "y", "@", "z", ">">> >>),
                  version |-> Some(<<"1">>)]]
Manifests == {None, Some(Serialize(TemplateDoc)), Some(Garbage)}

TemplateRel(manifest) ==
    (<<DotGit>> :> DirNode) @@ (<<DotGit, N_HEAD>> :> FileNode(<<"r">>))
    @@ (<<N_src>> :> DirNode) @@ (<<N_src, N_main>> :> FileNode(<<"f", "n">>))
    @@ (<<N_src, DotGit>> :> FileNode(<<"g">>))
    @@ (<<N_link>> :> OtherNode)
    @@ (IF manifest = None THEN EmptyFs ELSE <<CargoToml>> :> FileNode(manifest[1]))

IndexRel(text) ==
    (<<DotGit>> :> DirNode) @@ (<<N_index_json>> :> FileNode(text))

IndexOfUrl == EncodeIndex(<<[name |-> TplName, loc |-> RemoteUrl]>>)
IndexOfLocal == EncodeIndex(<<[name |-> TplName, loc |-> LocalDir]>>)
IndexOfBoth == EncodeIndex(<<[name |-> TplName, loc |-> RemoteUrl],
                             [name |-> TplName, loc |-> LocalDir]>>)
CachedIndexTexts == {IndexOfUrl, IndexOfLocal, <<"{">>}
FetchedIndexTexts == {IndexOfUrl, IndexOfBoth}

PipeOrder == <<DotGit, CargoToml, N_src, N_main, N_HEAD, N_link>>
PipeOrders == {PipeOrder, <<N_link, N_HEAD, N_main, N_src, CargoToml, DotGit>>}
Fuels == {NoFault} \cup (0..MaxFuel)

Networks ==
    [index : {None} \cup {Some(IndexRel(t)) : t \in FetchedIndexTexts},
     template : {None} \cup {Some(TemplateRel(m)) : m \in Manifests \ {None}}]

ConfigDir == Append(AbsPath(HomeText), N_cargo_template)
IndexCache == <<HomeText, N_cargo_template, N_index, url_to_repo_dir(DEFAULT_INDEX)>>
TemplateCache == <<HomeText, N_cargo_template, N_templates, TplName>>

PipeVars(home, names) ==
    [v \in NameVarSet \cup EmailVarSet \cup OtherVarSet |->
        IF v = "CARGO_HOME" THEN home
        ELSE IF v \in DOMAIN names THEN Some(names[v]) ELSE None]

EnvProfiles ==
    {[vars |-> PipeVars(Some(HomeText), <<>>), git |-> None, registry_index |-> None],
     [vars |-> PipeVars(Some(HomeText), [USER |-> <<"u">>]), git |-> None,
      registry_index |-> None],
     [vars |-> PipeVars(Some(HomeText), [CARGO_NAME |-> <<" ", "A", "d", "a">>]),
      git |-> Some([user_name |-> Some(<<"g">>),
                    user_email |-> Some(<<"a", "@", "b", " ">>)]),
      registry_index |-> Some(CustomIndex)],
     [vars |-> PipeVars(None, [USER |-> <<"u">>]), git |-> None, registry_index |-> None]}

InitialFs ==
    {(Cwd :> DirNode) @@ (AbsPath(HomeText) :> DirNode) @@ d @@ l @@ i @@ t :
        d \in {EmptyFs, RelPath(ProjName) :> DirNode},
        l \in {EmptyFs, TreeAt(RelPath(LocalDir), TemplateRel(Some(Serialize(TemplateDoc))))},
        i \in {EmptyFs} \cup
              {TreeAt(IndexCache, IndexRel(x))
               @@ [q \in Prefixes(IndexCache) |-> DirNode] : x \in CachedIndexTexts},
        t \in {EmptyFs,
               TreeAt(TemplateCache, TemplateRel(Some(Serialize(TemplateDoc))))
               @@ [q \in Prefixes(TemplateCache) |-> DirNode]}}

NoArgs == [frozen |-> FALSE, template |-> <<>>, project_name |-> <<>>]

Init ==
    /\ fs \in InitialFs
    /\ env \in EnvProfiles
    /\ pc = "Idle"
    /\ args = NoArgs
    /\ err = Ok
    /\ config = NoConfig
    /\ from = None
    /\ author = None
    /\ clones = {}
    /\ stage = "none"
    /\ io = NoFault
    /\ prev = None

\* cli().get_matches() and the reading of its matches: a new run
Invoke ==
    /\ pc \in {"Idle", "Done", "Failed"}
    /\ \E frozen \in BOOLEAN, template \in {TplName, LocalDir} :
          args' = [frozen |-> frozen, template |-> template, project_name |-> ProjName]
    /\ pc' = "ResolveDestination"
    /\ err' = Ok
    /\ config' = NoConfig
    /\ from' = None
    /\ author' = None
    /\ clones' = {}
    /\ stage' = "none"
    /\ io' = NoFault
    /\ prev' = IF pc = "Idle" THEN None ELSE Some(err)
    /\ UNCHANGED <<fs, env>>

\* A main that sets up its Config before it looks at the destination
ResolveDestination_after_config ==
    /\ pc = "ResolveDestination"
    /\ stage' = "ResolveDestination"
    /\ fs' = Config_new(fs, env, NoFault).fs
    /\ IF Exists(fs, project_dir(args))
       THEN /\ pc' = "Failed"
            /\ err' = Error("ExistsError", project_dir(args))
       ELSE /\ pc' = "ResolveTemplate"
            /\ err' = Ok
    /\ UNCHANGED <<env, args, config, from, author, clones, io, prev>>

ResolveDestination ==
    /\ pc = "ResolveDestination"
    /\ stage' = "ResolveDestination"
    /\ IF Exists(fs, project_dir(args))
       THEN /\ pc' = "Failed"
            /\ err' = Error("ExistsError", project_dir(args))
       ELSE /\ pc' = "ResolveTemplate"
            /\ err' = Ok
    /\ UNCHANGED <<fs, env, args, config, from, author, clones, io, prev>>

ResolveTemplate ==
    /\ pc = "ResolveTemplate"
    /\ stage' = "ResolveTemplate"
    /\ \E fuel \in {NoFault, 0}, net \in Networks :
          \E r \in {resolve_template(fs, env, args, fuel, net)} :
          /\ fs' = r.fs
          /\ err' = r.err
          /\ config' = r.config
          /\ from' = r.from
          /\ clones' = r.clones
          /\ pc' = IF r.err = Ok THEN "Materialize" ELSE "Failed"
          /\ io' = IF r.err = IoError THEN fuel ELSE NoFault
    /\ UNCHANGED <<env, args, author, prev>>

\* A copy that removes what it wrote when it fails
Materialize_rolling_back ==
    /\ pc = "Materialize"
    /\ stage' = "Materialize"
    /\ \E fuel \in Fuels, order \in PipeOrders :
          LET r == copy_dir(fs, from[1], project_dir(args), fuel, order) IN
          /\ fs' = IF r.err = Ok THEN r.fs ELSE fs
          /\ err' = r.err
          /\ pc' = IF r.err = Ok THEN "ResolveIdentity" ELSE "Failed"
          /\ io' = IF r.err = IoError THEN fuel ELSE NoFault
    /\ UNCHANGED <<env, args, config, from, author, clones, prev>>

Materialize ==
    /\ pc = "Materialize"
    /\ stage' = "Materialize"
    /\ \E fuel \in Fuels, order \in PipeOrders :
          LET r == copy_dir(fs, from[1], project_dir(args), fuel, order) IN
          /\ fs' = r.fs
          /\ err' = r.err
          /\ pc' = IF r.err = Ok THEN "ResolveIdentity" ELSE "Failed"
          /\ io' = IF r.err = IoError THEN fuel ELSE NoFault
    /\ UNCHANGED <<env, args, config, from, author, clones, prev>>

ResolveIdentity ==
    /\ pc = "ResolveIdentity"
    /\ stage' = "ResolveIdentity"
    /\ LET r == get_name_and_email(env) IN
          /\ err' = r.err
          /\ author' = r.value
          /\ pc' = IF r.err = Ok THEN "Personalize" ELSE "Failed"
    /\ UNCHANGED <<fs, env, args, config, from, clones, io, prev>>

Personalize ==
    /\ pc = "Personalize"
    /\ stage' = "Personalize"
    /\ \E fuel \in Fuels, order \in PipeOrders :
          LET r == find_cargo_toml(fs, project_dir(args), args.project_name,
                                   author[1].name, author[1].email, fuel, order) IN
          /\ fs' = r.fs
          /\ err' = r.err
          /\ pc' = IF r.err = Ok THEN "Done" ELSE "Failed"
          /\ io' = IF r.err = IoError THEN fuel ELSE NoFault
    /\ UNCHANGED <<env, args, config, from, author, clones, prev>>

Next ==
    \/ Invoke
    \/ ResolveDestination
    \/ ResolveTemplate
    \/ Materialize
    \/ ResolveIdentity
    \/ Personalize

Spec == Init /\ [][Next]_vars

(***************************************************************************)
(* Properties                                                              *)
(***************************************************************************)
Rel(f, root) ==
    {SubSeq(p, Len(root) + 1, Len(p)) : p \in {q \in DOMAIN f : IsBelow(q, root)}}
HasGit(q) == \E i \in 1..Len(q) : q[i] = DotGit

\* The state of the pipeline a step of ResolveTemplate starts from
HomeSet == env_var(env, "CARGO_HOME") # None
TemplatesRoot == <<HomeText, N_cargo_template, N_templates>>
CachedIndexIs(texts) ==
    /\ env.registry_index = None
    /\ IsFile(fs, Append(IndexCache, N_index_json))
    /\ fs[Append(IndexCache, N_index_json)].data \in texts
TemplateFetch == [url : {RemoteUrl, LocalDir}, into : {TemplateCache}]

\* C1: in offline mode no run of the pipeline fetches anything: no
\* Repository::clone is reached, of the index or of a template, whatever the
\* state of the index cache and of the template cache.
C1_OfflineNeverFetches == args.frozen => clones = {}

\* C2: a run whose destination exists fails in ResolveDestination with
\* ExistsError; from its start to its failure the filesystem is not changed
\* (no cache directory, nothing under the destination) and nothing is fetched.
C2_ExistingProjectFailsFirst ==
    [][/\ pc' = "ResolveDestination" => (fs' = fs /\ clones' = {})
       /\ (pc = "ResolveDestination" /\ Exists(fs, project_dir(args)))
          => /\ pc' = "Failed"
             /\ err' = Error("ExistsError", project_dir(args))
             /\ fs' = fs
             /\ clones' = {}]_vars

C2_Witness ==
    /\ pc = "Failed"
    /\ err = Error("ExistsError", RelPath(ProjName))
    /\ ~args.frozen
    /\ ~Exists(fs, ConfigDir)

\* C9: when the template is not cached, the mode is online and the fetch
\* into the template cache fails leaving no directory there, ResolveTemplate
\* still succeeds with the cache path as the source; Materialize then fails
\* with SourceDoesNotExist of that path and creates nothing.
C9_FailedFetchSurfacesInMaterialize ==
    [][/\ (/\ pc = "ResolveTemplate"
           /\ ~args.frozen
           /\ ~Exists(fs, TemplateCache)
           /\ clones' \cap TemplateFetch # {}
           /\ ~Exists(fs', TemplateCache))
          => (pc' = "Materialize" /\ err' = Ok /\ from' = Some(TemplateCache))
       /\ (pc = "Materialize" /\ ~Exists(fs, from[1]))
          => /\ pc' = "Failed"
             /\ err' = Error("SourceDoesNotExist", from[1])
             /\ fs' = fs
             /\ ~Exists(fs', project_dir(args))]_vars

C9_Witness ==
    /\ pc = "Failed"
    /\ stage = "Materialize"
    /\ err = Error("SourceDoesNotExist", TemplateCache)
    /\ clones \cap TemplateFetch # {}
    /\ ~Exists(fs, TemplateCache)
    /\ ~Exists(fs, RelPath(ProjName))

C6_Case(f) ==
    /\ IsFile(f, Append(IndexCache, N_index_json))
    /\ f[Append(IndexCache, N_index_json)].data \in {IndexOfUrl, IndexOfLocal}
    /\ ~Exists(f, TemplateCache)
    /\ ~Exists(f, RelPath(ProjName))
    /\ ~IsDir(f, RelPath(TplName))

\* C6: with a cached index that lists the template and no entry for it in the
\* template cache, a run in offline mode fails in ResolveTemplate with
\* TemplateNotFound(name) unless an I/O operation of setting up the cache
\* roots fails; either way it fetches nothing and creates neither the
\* destination nor a template cache entry, and it leaves the cached index as
\* it was, so that the next such run starts from the same case.
C6_OfflineUncachedTemplateNotFound ==
    [][(/\ pc = "ResolveTemplate"
        /\ args.frozen
        /\ args.template = TplName
        /\ HomeSet
        /\ env.registry_index = None
        /\ C6_Case(fs))
       => /\ pc' = "Failed"
          /\ err' = IF io' = NoFault THEN Error("TemplateNotFound", <<TplName>>)
                    ELSE IoError
          /\ clones' = {}
          /\ C6_Case(fs')]_vars

C6_Witness ==
    /\ pc = "Failed"
    /\ stage = "ResolveTemplate"
    /\ err = Error("TemplateNotFound", <<TplName>>)
    /\ args.frozen
    /\ CachedIndexIs({IndexOfUrl})
    /\ C6_Case(fs)
    /\ prev = Some(err)

\* The moves of the Orchestrator, and what a failed run has left in place
Stages == <<"ResolveDestination", "ResolveTemplate", "Materialize",
            "ResolveIdentity", "Personalize", "Done">>
PipelineOrder ==
    {<<Stages[i], Stages[i + 1]>> : i \in 1..5}
    \cup {<<Stages[i], "Failed">> : i \in 1..5}
    \cup {<<p, "ResolveDestination">> : p \in {"Idle", "Done", "Failed"}}

CopiedSoFar ==
    /\ (stage = "Materialize" /\ err = IoError /\ io >= 1)
       => IsDir(fs, project_dir(args))
    /\ (stage = "Materialize" /\ err = IoError /\ io >= 3)
       => Children(fs, project_dir(args)) # {}
    /\ stage \in {"ResolveIdentity", "Personalize"}
       => \A q \in Rel(fs, from[1]) :
             (~HasGit(q) /\ fs[from[1] \o q].kind # "other")
             => /\ Exists(fs, project_dir(args) \o q)
                /\ fs[project_dir(args) \o q].kind = fs[from[1] \o q].kind

\* C10: a run moves through ResolveDestination, ResolveTemplate, Materialize,
\* ResolveIdentity, Personalize, Done in this order, or from one of the five
\* to Failed, and leaves Done or Failed only for a new run; a step to Failed
\* removes nothing: after an I/O error part-way through Materialize the
\* destination and what was copied into it are there, and after a failure of
\* ResolveIdentity or Personalize every copied entry is there.
C10_OrderAndNoRollback ==
    [][/\ pc' # pc => <<pc, pc'>> \in PipelineOrder
       /\ pc' = "Failed"
          => /\ \A p \in DOMAIN fs : p \in DOMAIN fs'
             /\ CopiedSoFar']_vars

C10_Witness ==
    /\ pc = "Failed"
    /\ stage = "Materialize"
    /\ err = IoError
    /\ io = 3
    /\ IsFile(fs, Append(RelPath(ProjName), CargoToml))
    /\ ~Exists(fs, Append(RelPath(ProjName), N_src))

\* C7: for a source tree of regular files and directories with entries named
\* .git at any depth and a destination that does not exist, a successful
\* copy_dir leaves below the destination exactly the entries of the source
\* that are neither named .git nor below an entry named .git, each of the
\* kind and with the content it has in the source.
C7_CopyIsTheTreeWithoutGit ==
    (pc = "returned" /\ err = Ok /\ IsDir(args.fs0, args.src))
    => /\ IsDir(fs, args.to)
       /\ Rel(fs, args.to) = {q \in Rel(args.fs0, args.src) : ~HasGit(q)}
       /\ \A q \in Rel(fs, args.to) : fs[args.to \o q] = args.fs0[args.src \o q]
       /\ \A p \in DOMAIN args.fs0 : fs[p] = args.fs0[p]

C7_Witness ==
    /\ pc = "returned"
    /\ err = Ok
    /\ IsDir(args.fs0, <<SrcRoot[1], DotGit>>)
    /\ IsFile(args.fs0, <<SrcRoot[1], DotGit, N_a>>)
    /\ IsFile(args.fs0, <<SrcRoot[1], N_a, DotGit>>)
    /\ IsFile(args.fs0, <<SrcRoot[1], N_a, N_a>>)
    /\ ~Exists(args.fs0, DstRoot)
    /\ IsFile(fs, DstRoot \o <<N_a, N_a>>)
    /\ ~Exists(fs, DstRoot \o <<N_a, DotGit>>)

\* C8: copy_dir from a source that does not exist or is not a directory fails
\* with SourceDoesNotExist(from) and leaves the filesystem as it was: neither
\* the destination nor a directory above it is created, no file is written.
C8_MissingSourceCreatesNothing ==
    (pc = "returned" /\ (args.src \notin DOMAIN args.fs0
                         \/ args.fs0[args.src].kind # "dir"))
    => /\ err = Error("SourceDoesNotExist", args.src)
       /\ fs = args.fs0

C8_Witness ==
    /\ pc = "returned"
    /\ IsFile(args.fs0, args.src)
    /\ err.kind = "SourceDoesNotExist"
    /\ ~Exists(fs, <<DstRoot[1]>>)

\* The sources of the author name in the order of their precedence
NameSources ==
    <<env.vars["CARGO_NAME"], env.vars["GIT_AUTHOR_NAME"],
      env.vars["GIT_COMMITTER_NAME"],
      IF env.git = None THEN None ELSE env.git[1].user_name,
      env.vars["USER"], env.vars["USERNAME"], env.vars["NAME"]>>
First(S) == CHOOSE i \in S : \A j \in S : i <= j

C3_Personalized ==
    LET old == Parse(args.old)[1] IN
    [old EXCEPT !.package.name = Some(args.project_name),
                !.package.authors =
                    Some(<<IF args.author_email = None THEN args.author_name
                           ELSE args.author_name \o <<" ", "<">>
                                \o args.author_email[1] \o <<">">> >>)]

\* C3: after edit_cargo_toml succeeds, the whole content of the manifest is
\* the text of the document it held with package.name set to the project
\* name and package.authors to the one formatted author, whatever the lengths
\* of the old and of the new text.
C3_ManifestIsTheNewSerialization ==
    (pc = "returned" /\ err = Ok)
    => fs[args.file].data = Serialize(C3_Personalized)

====
